---------------------------- MODULE Spec2Model ----------------------------
(***************************************************************************)
(* A model of the customer-service conversation analyzer                   *)
(* (sentiment_utils.py and the Streamlit session of app.py).               *)
(*                                                                         *)
(* Representation.                                                         *)
(*  - A Python str is a sequence of characters; a character is a           *)
(*    one-character string ("RSQUO" stands for the typographic apostrophe  *)
(*    of the reply templates).  None is a sentinel distinct from every str.*)
(*  - A float is kept exact.  Compound scores are integers in hundredths   *)
(*    (0.05 is 5); a quotient is a pair [num, den] in hundredths, den > 0. *)
(*    Binary rounding of floats is not modelled.                           *)
(*  - The VADER polarity scorer is external: the compound value it gives   *)
(*    for a text is an input chosen from a bounded set.                    *)
(***************************************************************************)
EXTENDS Integers, Sequences, FiniteSets, TLC

VARIABLES
    pc,                 \* harness position: "call" / "done" / "session"
    arg,                \* arguments of the function being called
    ret,                \* its return value
    conversation,       \* st.session_state.conversation
    show_welcome,       \* st.session_state.show_welcome
    escalation_window,  \* the sidebar slider
    alert,              \* the escalation alert shown by the last script run
    critical,           \* the Critical Messages panel of the last script run
    smoothed,           \* the trend line of the last script run
    download,           \* the artifact offered for download by the last script run
    created             \* messages created so far in the session (id source)

vars == << pc, arg, ret, conversation, show_welcome, escalation_window,
           alert, critical, smoothed, download, created >>

----------------------------------------------------------------------------
(* Characters and str methods                                              *)

UpperLetters ==
    << "A","B","C","D","E","F","G","H","I","J","K","L","M",
       "N","O","P","Q","R","S","T","U","V","W","X","Y","Z" >>

LowerLetters ==
    << "a","b","c","d","e","f","g","h","i","j","k","l","m",
       "n","o","p","q","r","s","t","u","v","w","x","y","z" >>

Digits == << "0","1","2","3","4","5","6","7","8","9" >>

Range(s) == { s[i] : i \in DOMAIN s }

UpperSet == Range(UpperLetters)

LowerSet == Range(LowerLetters)

DigitSet == Range(Digits)

\* the lowercase form of each uppercase letter
LowerMap ==
    "A" :> "a" @@ "B" :> "b" @@ "C" :> "c" @@ "D" :> "d" @@ "E" :> "e" @@ "F" :> "f" @@
    "G" :> "g" @@ "H" :> "h" @@ "I" :> "i" @@ "J" :> "j" @@ "K" :> "k" @@ "L" :> "l" @@
    "M" :> "m" @@ "N" :> "n" @@ "O" :> "o" @@ "P" :> "p" @@ "Q" :> "q" @@ "R" :> "r" @@
    "S" :> "s" @@ "T" :> "t" @@ "U" :> "u" @@ "V" :> "v" @@ "W" :> "w" @@ "X" :> "x" @@
    "Y" :> "y" @@ "Z" :> "z"

None == << "None" >>

IsUpperChar(c) == c \in UpperSet

IsLowerChar(c) == c \in LowerSet

\* str.lower() on one character
LowerChar(c) == IF IsUpperChar(c) THEN LowerMap[c] ELSE c

\* text.lower()
lower(text) == [ i \in 1..Len(text) |-> LowerChar(text[i]) ] \o << >>

\* the `in` operator on strings: sub in text
Contains(sub, text) ==
    \E i \in 0..(Len(text) - Len(sub)) :
        \A j \in 1..Len(sub) : text[i + j] = sub[j]

\* text.count(ch)
count(text, ch) == Cardinality({ i \in 1..Len(text) : text[i] = ch })

\* \w of the re module
IsWordChar(c) ==
    IsUpperChar(c) \/ IsLowerChar(c) \/ c \in DigitSet \/ c = "_"

\* \s of the re module
IsSpaceChar(c) == c \in { " ", "\n", "\t" }

\* w.isupper(): at least one cased character and no lowercase one
isupper(w) ==
    /\ \E i \in 1..Len(w) : IsUpperChar(w[i])
    /\ \A i \in 1..Len(w) : ~IsLowerChar(w[i])

\* last index of the maximal run of \w characters that starts at i
WordRunEnd(text, i) ==
    CHOOSE e \in i..Len(text) :
        /\ \A j \in i..e : IsWordChar(text[j])
        /\ e = Len(text) \/ ~IsWordChar(text[e + 1])

\* last index of the maximal run of \s characters that starts at i
SpaceRunEnd(text, i) ==
    CHOOSE e \in i..Len(text) :
        /\ \A j \in i..e : IsSpaceChar(text[j])
        /\ e = Len(text) \/ ~IsSpaceChar(text[e + 1])

RECURSIVE FindWordsFrom(_, _)
FindWordsFrom(text, i) ==
    IF i > Len(text) THEN << >>
    ELSE IF ~IsWordChar(text[i]) THEN FindWordsFrom(text, i + 1)
    ELSE LET e == WordRunEnd(text, i)
         IN  << SubSeq(text, i, e) >> \o FindWordsFrom(text, e + 1)

\* re.findall(r"\w+", text)
findall_words(text) == FindWordsFrom(text, 1)

\* text.strip()
strip(text) ==
    LET keep == { i \in 1..Len(text) : ~IsSpaceChar(text[i]) }
    IN  IF keep = {} THEN << >>
        ELSE SubSeq(text, CHOOSE i \in keep : \A j \in keep : i <= j,
                          CHOOSE i \in keep : \A j \in keep : i >= j)

IsSentenceEnd(c) == c \in { ".", "!", "?" }

RECURSIVE SplitFrom(_, _, _)
SplitFrom(text, start, i) ==
    IF i > Len(text) THEN << SubSeq(text, start, Len(text)) >>
    ELSE IF i > 1 /\ IsSentenceEnd(text[i - 1]) /\ IsSpaceChar(text[i])
    THEN LET e == SpaceRunEnd(text, i)
         IN  << SubSeq(text, start, i - 1) >> \o SplitFrom(text, e + 1, e + 1)
    ELSE SplitFrom(text, start, i + 1)

\* re.split(r"(?<=[.!?])\s+", text)
split_sentences(text) == SplitFrom(text, 1, 1)

----------------------------------------------------------------------------
(* Exact arithmetic on quotients, in hundredths                            *)

Rat(n, d) == [num |-> n, den |-> d]

RatLe(a, b) == a.num * b.den <= b.num * a.den

RatEq(a, b) == a.num * b.den = b.num * a.den

RatAdd(a, b) == Rat(a.num * b.den + b.num * a.den, a.den * b.den)

RatMin(a, b) == IF RatLe(a, b) THEN a ELSE b

RatMax(a, b) == IF RatLe(a, b) THEN b ELSE a

RECURSIVE SumSeq(_)
SumSeq(s) == IF s = << >> THEN 0 ELSE Head(s) + SumSeq(Tail(s))

----------------------------------------------------------------------------
(* Keyword tables                                                          *)

INTENT_KEYWORDS ==
    << [intent |-> "billing", keywords |->
          << <<"b","i","l","l">>,
             <<"b","i","l","l","i","n","g">>,
             <<"c","h","a","r","g","e">>,
             <<"c","h","a","r","g","e","d">>,
             <<"i","n","v","o","i","c","e">>,
             <<"p","a","y","m","e","n","t">> >>],
       [intent |-> "refund", keywords |->
          << <<"r","e","f","u","n","d">>,
             <<"r","e","f","u","n","d","s">>,
             <<"r","e","t","u","r","n">>,
             <<"m","o","n","e","y"," ","b","a","c","k">>,
             <<"r","e","p","l","a","c","e">>,
             <<"e","x","c","h","a","n","g","e">> >>],
       [intent |-> "delivery", keywords |->
          << <<"d","e","l","i","v","e","r","y">>,
             <<"d","e","l","i","v","e","r","e","d">>,
             <<"s","h","i","p","p","i","n","g">>,
             <<"c","o","u","r","i","e","r">>,
             <<"t","r","a","c","k">>,
             <<"t","r","a","c","k","i","n","g">>,
             <<"l","a","t","e">> >>],
       [intent |-> "technical", keywords |->
          << <<"b","r","o","k","e","n">>,
             <<"n","o","t"," ","w","o","r","k","i","n","g">>,
             <<"e","r","r","o","r">>,
             <<"b","u","g">>,
             <<"c","r","a","s","h">>,
             <<"s","l","o","w">>,
             <<"i","s","s","u","e">> >>],
       [intent |-> "account", keywords |->
          << <<"l","o","g","i","n">>,
             <<"p","a","s","s","w","o","r","d">>,
             <<"a","c","c","o","u","n","t">>,
             <<"p","r","o","f","i","l","e">>,
             <<"s","i","g","n","u","p">>,
             <<"s","i","g","n"," ","u","p">> >>] >>

URGENT_WORDS ==
    << <<"u","r","g","e","n","t">>,
       <<"a","s","a","p">>,
       <<"i","m","m","e","d","i","a","t","e","l","y">>,
       <<"r","i","g","h","t"," ","n","o","w">>,
       <<"s","o","o","n">>,
       <<"p","l","e","a","s","e"," ","h","e","l","p">>,
       <<"h","e","l","p"," ","m","e">> >> 

NEUTRAL_PHRASES ==
    << <<"n","o","t"," ","b","a","d">>,
       <<"o","k">>,
       <<"o","k","a","y">>,
       <<"i","t","s"," ","o","k">>,
       <<"i","t","'","s"," ","o","k">>,
       <<"i","t","s"," ","f","i","n","e">>,
       <<"i","t","'","s"," ","f","i","n","e">>,
       <<"f","i","n","e">>,
       <<"a","v","e","r","a","g","e">>,
       <<"n","o","t"," ","n","e","g","a","t","i","v","e">> >> 

NEGATIVE_REPLIES ==
    << <<"I","RSQUO","m"," ","r","e","a","l","l","y"," ","s","o","r","r","y"," ","y","o","u","'","r","e"," ","f","a","c","i","n","g"," ","t","h","i","s"," ","i","s","s","u","e","."," ","I","RSQUO","l","l"," ","h","e","l","p"," ","y","o","u"," ","r","i","g","h","t"," ","a","w","a","y",".">>,
       <<"I"," ","u","n","d","e","r","s","t","a","n","d"," ","t","h","i","s"," ","m","u","s","t"," ","b","e"," ","f","r","u","s","t","r","a","t","i","n","g","."," ","L","e","t"," ","m","e"," ","l","o","o","k"," ","i","n","t","o"," ","i","t"," ","f","o","r"," ","y","o","u",".">>,
       <<"I"," ","a","p","o","l","o","g","i","s","e"," ","f","o","r"," ","t","h","e"," ","i","n","c","o","n","v","e","n","i","e","n","c","e","."," ","I","RSQUO","l","l"," ","t","r","y"," ","t","o"," ","r","e","s","o","l","v","e"," ","i","t"," ","q","u","i","c","k","l","y",".">> >> 

NEUTRAL_REPLIES ==
    << <<"T","h","a","n","k","s"," ","f","o","r"," ","t","h","e"," ","u","p","d","a","t","e","."," ","C","o","u","l","d"," ","y","o","u"," ","s","h","a","r","e"," ","a"," ","f","e","w"," ","m","o","r","e"," ","d","e","t","a","i","l","s","?">>,
       <<"O","k","a","y",","," ","I"," ","u","n","d","e","r","s","t","a","n","d","."," ","C","a","n"," ","y","o","u"," ","p","r","o","v","i","d","e"," ","t","h","e"," ","o","r","d","e","r"," ","n","u","m","b","e","r","?">>,
       <<"G","o","t"," ","i","t","."," ","I","RSQUO","l","l"," ","c","h","e","c","k"," ","t","h","i","s"," ","a","n","d"," ","g","e","t"," ","b","a","c","k"," ","t","o"," ","y","o","u",".">> >> 

POSITIVE_REPLIES ==
    << <<"H","a","p","p","y"," ","t","o"," ","h","e","a","r"," ","t","h","a","t","!"," ","L","e","t"," ","m","e"," ","k","n","o","w"," ","i","f"," ","y","o","u"," ","n","e","e","d"," ","a","n","y","t","h","i","n","g"," ","e","l","s","e",".">>,
       <<"G","r","e","a","t","!"," ","G","l","a","d"," ","i","t"," ","w","o","r","k","e","d"," ","f","o","r"," ","y","o","u",".">>,
       <<"A","w","e","s","o","m","e","!"," ","I","RSQUO","m"," ","h","e","r","e"," ","i","f"," ","y","o","u"," ","n","e","e","d"," ","a","n","y","t","h","i","n","g"," ","f","u","r","t","h","e","r",".">> >> 

----------------------------------------------------------------------------
(* 1. Message-level sentiment                                              *)

\* mutant: the neutral phrases are looked up in the text as typed
score_message_CaseSensitive(text, c) ==
    LET t == IF text = None THEN << >> ELSE text
    IN  IF \E p \in DOMAIN NEUTRAL_PHRASES : Contains(NEUTRAL_PHRASES[p], t)
        THEN [compound |-> 0, label |-> "Neutral"]
        ELSE [compound |-> c,
              label |-> IF c >= 5 THEN "Positive"
                        ELSE IF c <= -5 THEN "Negative"
                        ELSE "Neutral"]

\* score_message(text), c being the compound value _sia.polarity_scores
\* gives for the text.  Only the keys the program reads are kept.
score_message(text, c) ==
    LET t == IF text = None THEN << >> ELSE text
        lower_text == lower(t)
    IN  IF \E p \in DOMAIN NEUTRAL_PHRASES :
               Contains(NEUTRAL_PHRASES[p], lower_text)
        THEN [compound |-> 0, label |-> "Neutral"]
        ELSE [compound |-> c,
              label |-> IF c >= 5 THEN "Positive"
                        ELSE IF c <= -5 THEN "Negative"
                        ELSE "Neutral"]

----------------------------------------------------------------------------
(* 2. Conversation-level sentiment                                         *)

\* mutant: the thresholds compared strictly
conversation_overall_Strict(compound_scores) ==
    IF compound_scores = << >> THEN << Rat(0, 1), "Neutral" >>
    ELSE LET avg == Rat(SumSeq(compound_scores), Len(compound_scores))
         IN  << avg,
                IF ~RatLe(avg, Rat(5, 1)) THEN "Positive"
                ELSE IF ~RatLe(Rat(-5, 1), avg) THEN "Negative"
                ELSE "Neutral" >>

conversation_overall(compound_scores) ==
    IF compound_scores = << >> THEN << Rat(0, 1), "Neutral" >>
    ELSE LET avg == Rat(SumSeq(compound_scores), Len(compound_scores))
         IN  << avg,
                IF RatLe(Rat(5, 1), avg) THEN "Positive"
                ELSE IF RatLe(avg, Rat(-5, 1)) THEN "Negative"
                ELSE "Neutral" >>

----------------------------------------------------------------------------
(* 3. Escalation detection                                                 *)

\* mutant: the counter is not reset by a non-Negative label
RECURSIVE EscalationScan_NoReset(_, _, _, _)
EscalationScan_NoReset(labels, window, i, consecutive) ==
    IF i > Len(labels) THEN FALSE
    ELSE IF labels[i] = "Negative"
    THEN IF consecutive + 1 >= window THEN TRUE
         ELSE EscalationScan_NoReset(labels, window, i + 1, consecutive + 1)
    ELSE EscalationScan_NoReset(labels, window, i + 1, consecutive)

\* the loop of detect_escalation from index i with the counter `consecutive`
RECURSIVE EscalationScan(_, _, _, _)
EscalationScan(labels, window, i, consecutive) ==
    IF i > Len(labels) THEN FALSE
    ELSE IF labels[i] = "Negative"
    THEN IF consecutive + 1 >= window THEN TRUE
         ELSE EscalationScan(labels, window, i + 1, consecutive + 1)
    ELSE EscalationScan(labels, window, i + 1, 0)

\* mutant: only the streak the log ends with is looked at
detect_escalation_CurrentStreak(labels, window) ==
    /\ Len(labels) >= window
    /\ \A n \in (Len(labels) - window + 1)..Len(labels) : labels[n] = "Negative"

detect_escalation(labels, window) == EscalationScan(labels, window, 1, 0)

----------------------------------------------------------------------------
(* 4. Intent detection                                                     *)

\* mutant: the last matching category wins
detect_intent_LastMatch(text) ==
    IF text = None \/ text = << >> THEN "other"
    ELSE LET lower_text == lower(text)
             hits == { k \in DOMAIN INTENT_KEYWORDS :
                         \E n \in DOMAIN INTENT_KEYWORDS[k].keywords :
                             Contains(INTENT_KEYWORDS[k].keywords[n], lower_text) }
         IN  IF hits = {} THEN "other"
             ELSE INTENT_KEYWORDS[CHOOSE k \in hits : \A h \in hits : k >= h].intent

detect_intent(text) ==
    IF text = None \/ text = << >> THEN "other"
    ELSE LET lower_text == lower(text)
             hits == { k \in DOMAIN INTENT_KEYWORDS :
                         \E n \in DOMAIN INTENT_KEYWORDS[k].keywords :
                             Contains(INTENT_KEYWORDS[k].keywords[n], lower_text) }
         IN  IF hits = {} THEN "other"
             ELSE INTENT_KEYWORDS[CHOOSE k \in hits : \A h \in hits : k <= h].intent

----------------------------------------------------------------------------
(* 5. Urgency score                                                        *)

\* mutant: the sum is returned without the final clamp
urgency_score_NoClamp(text) ==
    IF text = None \/ text = << >> THEN Rat(0, 1)
    ELSE LET lower_text == lower(text)
             urgent == { n \in DOMAIN URGENT_WORDS :
                           Contains(URGENT_WORDS[n], lower_text) }
             s1 == Rat(40 * Cardinality(urgent), 1)
             exclaims == count(text, "!")
             s2 == RatAdd(s1, RatMin(Rat(20, 1), Rat(5 * exclaims, 1)))
             words == findall_words(text)
             caps_count == Cardinality({ n \in DOMAIN words : isupper(words[n]) })
             frac_caps == Rat(100 * caps_count, Len(words))
         IN  IF words # << >>
             THEN RatAdd(s2, RatMin(Rat(40, 1), frac_caps))
             ELSE s2

urgency_score(text) ==
    IF text = None \/ text = << >> THEN Rat(0, 1)
    ELSE LET lower_text == lower(text)
             urgent == { n \in DOMAIN URGENT_WORDS :
                           Contains(URGENT_WORDS[n], lower_text) }
             s1 == Rat(40 * Cardinality(urgent), 1)
             exclaims == count(text, "!")
             s2 == RatAdd(s1, RatMin(Rat(20, 1), Rat(5 * exclaims, 1)))
             words == findall_words(text)
             caps_count == Cardinality({ n \in DOMAIN words : isupper(words[n]) })
             frac_caps == Rat(100 * caps_count, Len(words))
             s3 == IF words # << >>
                   THEN RatAdd(s2, RatMin(Rat(40, 1), frac_caps))
                   ELSE s2
         IN  RatMax(Rat(0, 1), RatMin(Rat(100, 1), s3))

----------------------------------------------------------------------------
(* 6. Sentence-level breakdown and worst sentence                          *)

\* the sentences sentence_level_scores scores, in order
sentences_of(text) ==
    IF text = None \/ text = << >> THEN << >>
    ELSE SelectSeq(split_sentences(strip(text)), LAMBDA s : s # << >>)

\* sentence_level_scores(text), sia[n] being the scorer's compound value
\* for the n-th sentence
sentence_level_scores(text, sia) ==
    LET sents == sentences_of(text)
    IN  [ n \in 1..Len(sents) |->
            LET sc == score_message(sents[n], sia[n])
            IN  [sentence |-> sents[n], compound |-> sc.compound,
                 label |-> sc.label] ]

\* worst_sentence(text): min() keeps the first of equal minima
worst_sentence(text, sia) ==
    LET sents == sentence_level_scores(text, sia)
    IN  IF sents = << >>
        THEN [sentence |-> << >>, compound |-> 0, label |-> "Neutral"]
        ELSE sents[CHOOSE n \in DOMAIN sents :
                     /\ \A m \in DOMAIN sents : sents[n].compound <= sents[m].compound
                     /\ \A m \in 1..(n - 1) : sents[m].compound > sents[n].compound]

----------------------------------------------------------------------------
(* 7. Moving average                                                       *)

\* statistics.mean: raises StatisticsError on no data
mean(data) ==
    IF data = << >> THEN [exc |-> "StatisticsError", value |-> Rat(0, 1)]
    ELSE [exc |-> "none", value |-> Rat(SumSeq(data), Len(data))]

\* values[lo:hi] for 0 <= lo
PySlice(values, lo, hi) ==
    SubSeq(values, lo + 1, IF hi < Len(values) THEN hi ELSE Len(values))

\* mutant: the window starts one element early
moving_average_OffByOne(values, window) ==
    IF values = << >> THEN [exc |-> "none", result |-> << >>]
    ELSE LET m == [ i \in 0..(Len(values) - 1) |->
                      LET start == IF i - window > 0 THEN i - window ELSE 0
                      IN  mean(PySlice(values, start, i + 1)) ]
         IN  IF \E i \in DOMAIN m : m[i].exc # "none"
             THEN [exc |-> "StatisticsError", result |-> << >>]
             ELSE [exc |-> "none",
                   result |-> [ n \in 1..Len(values) |-> m[n - 1].value ]]

\* moving_average(values, window): [exc, result]; exc is the exception that
\* escapes ("none" when the call returns result)
moving_average(values, window) ==
    IF values = << >> THEN [exc |-> "none", result |-> << >>]
    ELSE LET m == [ i \in 0..(Len(values) - 1) |->
                      LET start == IF i - window + 1 > 0 THEN i - window + 1 ELSE 0
                      IN  mean(PySlice(values, start, i + 1)) ]
         IN  IF \E i \in DOMAIN m : m[i].exc # "none"
             THEN [exc |-> "StatisticsError", result |-> << >>]
             ELSE [exc |-> "none",
                   result |-> [ n \in 1..Len(values) |-> m[n - 1].value ]]

----------------------------------------------------------------------------
(* 8. Top negative messages                                                *)

\* m.get(key, default)
Get(m, key, default) == IF key \in DOMAIN m THEN m[key] ELSE default

ScoreKey(m) == Get(m, "score", 0)

\* mutant: m goes before the elements whose key equals its own
InsertStable_BeforeEqual(srt, m) ==
    LET k == Cardinality({ i \in DOMAIN srt : ScoreKey(srt[i]) < ScoreKey(m) })
    IN  SubSeq(srt, 1, k) \o << m >> \o SubSeq(srt, k + 1, Len(srt))

\* one step of a stable sort: m goes after every element whose key is <= its own
InsertStable(srt, m) ==
    LET k == Cardinality({ i \in DOMAIN srt : ScoreKey(srt[i]) <= ScoreKey(m) })
    IN  SubSeq(srt, 1, k) \o << m >> \o SubSeq(srt, k + 1, Len(srt))

\* sorted(msgs, key=score): ascending and stable
RECURSIVE sorted_by_score(_)
sorted_by_score(msgs) ==
    IF msgs = << >> THEN << >>
    ELSE InsertStable(sorted_by_score(SubSeq(msgs, 1, Len(msgs) - 1)),
                      msgs[Len(msgs)])

\* seq[:k]
PyPrefix(seq, k) ==
    IF k >= 0 THEN SubSeq(seq, 1, IF k < Len(seq) THEN k ELSE Len(seq))
    ELSE SubSeq(seq, 1, IF Len(seq) + k > 0 THEN Len(seq) + k ELSE 0)

top_negative_messages(conv, top_k) ==
    LET user_msgs == SelectSeq(conv, LAMBDA m : Get(m, "role", "None") = "user")
        sorted_msgs == sorted_by_score(user_msgs)
    IN  PyPrefix(sorted_msgs, top_k)

----------------------------------------------------------------------------
(* 9. Adaptive replies                                                     *)

\* the replies random.choice can return for a label
adaptive_reply(label) ==
    IF label = "Negative" THEN Range(NEGATIVE_REPLIES)
    ELSE IF label = "Positive" THEN Range(POSITIVE_REPLIES)
    ELSE Range(NEUTRAL_REPLIES)

----------------------------------------------------------------------------
(* 10. Text report                                                         *)

\* format(x, ".3f") of a quotient in hundredths, as an integer number of
\* thousandths (a tie at half a thousandth is resolved to even)
Fmt3(x) ==
    LET n == 10 * x.num
        q == n \div x.den
        r == n % x.den
    IN  IF 2 * r < x.den THEN q
        ELSE IF 2 * r > x.den THEN q + 1
        ELSE IF q % 2 = 0 THEN q ELSE q + 1

\* generate_text_report(conversation): the lines, each as its fields
generate_text_report(conv) ==
    LET users == SelectSeq(conv, LAMBDA m : Get(m, "role", "None") = "user")
        user_scores == [ n \in 1..Len(users) |-> users[n].score ]
        overall == conversation_overall(user_scores)
        worst_msgs == top_negative_messages(conv, 3)
    IN  << [line |-> "Conversation Summary"],
           [line |-> "===================="],
           [line |-> "Total messages: ", n |-> Len(conv)],
           [line |-> "User messages: ", n |-> Len(users)],
           [line |-> "Overall sentiment: ", label |-> overall[2],
            avg |-> Fmt3(overall[1])],
           [line |-> ""] >>
        \o (IF worst_msgs # << >>
            THEN << [line |-> "Top negative user messages:"] >>
                 \o [ i \in 1..Len(worst_msgs) |->
                        [line |-> "item", i |-> i, text |-> worst_msgs[i].text,
                         score |-> Fmt3(Rat(worst_msgs[i].score, 1))] ]
            ELSE << [line |-> "No user messages to highlight."] >>)

----------------------------------------------------------------------------
(* Bounds and input sets                                                   *)

MaxLabels == 6

MaxScores == 3

MaxValues == 4

MaxConv == 4

MaxTopK == 4

MaxFrags == 2

MaxCycles == 2

\* the range of the Escalation Threshold slider
SliderMin == 2

SliderMax == 6

Labels == { "Positive", "Neutral", "Negative" }

SeqsUpTo(S, n) == UNION { [1..k -> S] : k \in 0..n }

\* integer arguments a caller can pass for window / top_k
WindowArgs == (-1)..SliderMax

\* compound values in hundredths, on both sides of each threshold
ScoreVals == { -80, -60, -6, -5, -4, 0, 4, 5, 6, 40 }

\* samples for moving_average ([1, 2, 3] of the documentation is <<100, 200, 300>>)
TrendVals == { -60, 0, 100, 200, 300 }

NoDownload == [kind |-> "none"]

\* the session variables while a single function is called on its own
SessionIdle ==
    /\ conversation = << >>
    /\ show_welcome = TRUE
    /\ escalation_window = 3
    /\ alert = FALSE
    /\ critical = << >>
    /\ smoothed = << >>
    /\ download = NoDownload
    /\ created = 0

sessionVars == << conversation, show_welcome, escalation_window, alert,
                  critical, smoothed, download, created >>

\* the called function returns
Return(value) ==
    /\ pc = "call"
    /\ pc' = "done"
    /\ ret' = value
    /\ UNCHANGED << arg, sessionVars >>

----------------------------------------------------------------------------
(* detect_escalation called on its own                                   *)

InitEscalation ==
    /\ pc = "call"
    /\ arg \in [labels : SeqsUpTo(Labels, MaxLabels), window : WindowArgs]
    /\ ret = "pending"
    /\ SessionIdle

CallDetectEscalation == Return(detect_escalation(arg.labels, arg.window))

SpecEscalation == InitEscalation /\ [][CallDetectEscalation]_vars

\* labels holds a run of at least w consecutive Negative entries
HasNegativeRun(labels, w) ==
    \E i \in 1..(Len(labels) - w + 1) :
        \A j \in i..(i + w - 1) : labels[j] = "Negative"

\* C1: for every list of labels and every window in 2..6, detect_escalation
\* returns true if and only if the list holds at least `window` consecutive
\* Negative entries; a non-Negative label in between resets the run.
C1_EscalationIffRun ==
    (pc = "done" /\ arg.window \in SliderMin..SliderMax)
        => (ret <=> HasNegativeRun(arg.labels, arg.window))

C1_Witness ==
    /\ pc = "done"
    /\ arg.labels = << "Negative", "Positive", "Negative", "Negative" >>
    /\ arg.window = 3
    /\ ret = FALSE

----------------------------------------------------------------------------
(* conversation_overall called on its own                                *)

InitOverall ==
    /\ pc = "call"
    /\ arg \in [scores : SeqsUpTo(ScoreVals, MaxScores)]
    /\ ret = "pending"
    /\ SessionIdle

CallConversationOverall == Return(conversation_overall(arg.scores))

SpecOverall == InitOverall /\ [][CallConversationOverall]_vars

\* C3: conversation_overall returns (0.0, Neutral) for the empty list; for a
\* non-empty list it returns the arithmetic mean, labelled Positive when the
\* mean is >= 0.05, Negative when it is <= -0.05 and Neutral otherwise.
C3_OverallMeanAndLabel ==
    pc = "done" =>
        LET n == Len(arg.scores)
            total == SumSeq(arg.scores)
        IN  IF n = 0
            THEN ret = << Rat(0, 1), "Neutral" >>
            ELSE /\ ret[1].den > 0
                 /\ ret[1].num * n = total * ret[1].den
                 /\ ret[2] = IF total >= 5 * n THEN "Positive"
                             ELSE IF total <= -5 * n THEN "Negative"
                             ELSE "Neutral"

C3_Witness ==
    /\ pc = "done"
    /\ arg.scores = << 40, -60, -80 >>
    /\ ret[2] = "Negative"
    /\ ret[1].num * 3 = -100 * ret[1].den

----------------------------------------------------------------------------
(* moving_average called on its own                                      *)

InitMovingAverage ==
    /\ pc = "call"
    /\ arg \in [values : SeqsUpTo(TrendVals, MaxValues), window : WindowArgs]
    /\ ret = "pending"
    /\ SessionIdle

CallMovingAverage == Return(moving_average(arg.values, arg.window))

SpecMovingAverage == InitMovingAverage /\ [][CallMovingAverage]_vars

\* C5: for every list of values and every window >= 1, moving_average returns
\* a list of the input's length whose element i is the arithmetic mean of
\* values[max(0, i-window+1) .. i] (here 1-based), so the first element
\* equals the first value.
C5_TrailingMean ==
    (pc = "done" /\ arg.window >= 1) =>
        /\ ret.exc = "none"
        /\ Len(ret.result) = Len(arg.values)
        /\ \A i \in 1..Len(arg.values) :
              LET lo == IF i - arg.window + 1 > 1 THEN i - arg.window + 1 ELSE 1
                  total == SumSeq([ k \in 1..(i - lo + 1) |-> arg.values[lo + k - 1] ])
              IN  /\ ret.result[i].den > 0
                  /\ ret.result[i].num * (i - lo + 1) = total * ret.result[i].den
        /\ Len(arg.values) > 0 => RatEq(ret.result[1], Rat(arg.values[1], 1))

C5_Witness ==
    /\ pc = "done"
    /\ arg.values = << 100, 200, 300 >>
    /\ arg.window = 3
    /\ ret.exc = "none"
    /\ Len(ret.result) = 3
    /\ RatEq(ret.result[1], Rat(100, 1))
    /\ RatEq(ret.result[2], Rat(150, 1))
    /\ RatEq(ret.result[3], Rat(200, 1))

----------------------------------------------------------------------------
(* Texts: concatenations of a few fragments                                *)

RECURSIVE Flatten(_)
Flatten(fs) == IF fs = << >> THEN << >> ELSE Head(fs) \o Flatten(Tail(fs))

TextsFrom(frags, n) == { Flatten(fs) : fs \in SeqsUpTo(frags, n) }

\* pieces of borderline phrases, whole and split, in both cases
SentimentFragments ==
    { <<"o","k">>,
      <<"N","o","t"," ","B","a","d">>,
      <<"f","i","n","e">>,
      <<"r","e">>,
      <<" ">>,
      <<"g","r","e","a","t">>,
      <<"t","e","r","r","i","b","l","e">>,
      <<"o">>,
      <<"k">>,
      <<"i","t","'","s"," ">>,
      <<"A","V","E","R","A","G","E">>,
      <<"n","o","t"," ">>,
      <<"n","e","g","a","t","i","v","e">>,
      <<"b","a","d">> }

\* keywords of every category, whole, split and inside longer words
IntentFragments ==
    { <<"I"," ","w","a","n","t"," ","a"," ","r","e","f","u","n","d"," ">>,
      <<"f","o","r"," ","m","y"," ","b","r","o","k","e","n"," ","p","r","o","d","u","c","t">>,
      <<"b","i","l","l">>,
      <<"R","E","F","U","N","D">>,
      <<"l","a","t","e">>,
      <<"l","o","g","i","n">>,
      <<" ">>,
      <<"h","e","l","l","o">>,
      <<"t","r","a","n","s">>,
      <<"s","i","g","n"," ">>,
      <<"u","p">>,
      <<"M","o","n","e","y"," ">>,
      <<"b","a","c","k">>,
      <<"E","r","r","o","r">> }

\* urgent keywords, exclamation marks and upper-case words
UrgencyFragments ==
    { <<"T","h","i","s"," ","i","s"," ","u","r","g","e","n","t",","," ","p","l","e","a","s","e"," ","h","e","l","p"," ","m","e"," ">>,
      <<"A","S","A","P","!","!","!">>,
      <<"!">>,
      <<"!","!","!">>,
      <<" ">>,
      <<"H","E","L","P">>,
      <<"n","o","w">>,
      <<"r","i","g","h","t"," ">>,
      <<"s","o","o","n">>,
      <<"p","l","e","a","s","e"," ">>,
      <<"h","e","l","p"," ","m","e">>,
      <<"o","k"," ">>,
      <<"A","1"," ","b","_"," ","2","2"," ">>,
      <<"I","m","m","e","d","i","a","t","e","l","y">> }

----------------------------------------------------------------------------
(* score_message called on its own                                       *)

InitScoreMessage ==
    /\ pc = "call"
    /\ arg \in [text : TextsFrom(SentimentFragments, MaxFrags) \cup { None },
                compound : ScoreVals]
    /\ ret = "pending"
    /\ SessionIdle

CallScoreMessage == Return(score_message(arg.text, arg.compound))

SpecScoreMessage == InitScoreMessage /\ [][CallScoreMessage]_vars

\* C2: with c the scorer's compound value, a text (None read as empty) whose
\* lowercased form contains one of the ten neutral phrases gets compound 0.0
\* and label Neutral whatever c is; any other text gets compound c and the
\* label Positive if c >= 0.05, Negative if c <= -0.05, Neutral otherwise.
\* The label is always one of the three.
C2_ScoreMessage ==
    pc = "done" =>
        LET t == IF arg.text = None THEN << >> ELSE arg.text
            c == arg.compound
            hit == \E p \in Range(NEUTRAL_PHRASES) : Contains(p, lower(t))
        IN  /\ Len(NEUTRAL_PHRASES) = 10
            /\ ret.label \in Labels
            /\ hit => ret = [compound |-> 0, label |-> "Neutral"]
            /\ ~hit => /\ ret.compound = c
                       /\ c >= 5 => ret.label = "Positive"
                       /\ c <= -5 => ret.label = "Negative"
                       /\ (-5 < c /\ c < 5) => ret.label = "Neutral"

C2_Witness ==
    /\ pc = "done"
    /\ arg.text = <<"N","o","t"," ","B","a","d">>
    /\ arg.compound = 40
    /\ ret = [compound |-> 0, label |-> "Neutral"]

----------------------------------------------------------------------------
(* detect_intent called on its own                                       *)

InitDetectIntent ==
    /\ pc = "call"
    /\ arg \in [text : TextsFrom(IntentFragments, MaxFrags) \cup { None }]
    /\ ret = "pending"
    /\ SessionIdle

CallDetectIntent == Return(detect_intent(arg.text))

SpecDetectIntent == InitDetectIntent /\ [][CallDetectIntent]_vars

IntentOrder == << "billing", "refund", "delivery", "technical", "account" >>

\* some keyword of the category occurs in the lowercased text
CategoryOccurs(cat, text) ==
    \E k \in DOMAIN INTENT_KEYWORDS :
        /\ INTENT_KEYWORDS[k].intent = cat
        /\ \E kw \in Range(INTENT_KEYWORDS[k].keywords) : Contains(kw, lower(text))

\* C6: detect_intent returns the first category, in the order billing,
\* refund, delivery, technical, account, one of whose keywords occurs in the
\* lowercased text, also when later categories match; other when none occurs
\* or the text is empty or None; never agent.
C6_FirstCategoryWins ==
    pc = "done" =>
        LET t == IF arg.text = None THEN << >> ELSE arg.text
            found == { n \in DOMAIN IntentOrder : CategoryOccurs(IntentOrder[n], t) }
        IN  /\ ret # "agent"
            /\ found = {} => ret = "other"
            /\ found # {} =>
                  \E n \in found : /\ ret = IntentOrder[n]
                                   /\ \A m \in found : n <= m

C6_Witness ==
    /\ pc = "done"
    /\ arg.text = <<"I"," ","w","a","n","t"," ","a"," ","r","e","f","u","n","d"," ","f","o","r"," ","m","y"," ","b","r","o","k","e","n"," ","p","r","o","d","u","c","t">>
    /\ CategoryOccurs("technical", arg.text)
    /\ ret = "refund"

----------------------------------------------------------------------------
(* urgency_score called on its own                                       *)

InitUrgency ==
    /\ pc = "call"
    /\ arg \in [text : TextsFrom(UrgencyFragments, MaxFrags) \cup { None }]
    /\ ret = "pending"
    /\ SessionIdle

CallUrgencyScore == Return(urgency_score(arg.text))

SpecUrgency == InitUrgency /\ [][CallUrgencyScore]_vars

\* the number of urgent keywords occurring in the lowercased text
UrgentHits(text) ==
    Cardinality({ w \in Range(URGENT_WORDS) : Contains(w, lower(text)) })

\* C7: urgency_score is max(0, min(1, 0.4*k + min(0.2, 0.05*e) + min(0.4, f)))
\* with k the number of the seven urgent keywords in the lowercased text, e
\* the number of '!' and f the fraction of word tokens that are fully upper
\* case; it lies in [0, 1], is 0.0 for the empty text, at least 0.4 when
\* k >= 1 and exactly 1.0 when k >= 3.
C7_UrgencyFormula ==
    pc = "done" =>
        LET t == IF arg.text = None THEN << >> ELSE arg.text
            k == UrgentHits(t)
            e == Cardinality({ i \in DOMAIN t : t[i] = "!" })
            words == findall_words(t)
            w == Len(words)
            caps == Cardinality({ n \in DOMAIN words : isupper(words[n]) })
            d == IF w = 0 THEN 1 ELSE w
            excl == IF 5 * e < 20 THEN 5 * e ELSE 20
            capPart == IF w = 0 THEN 0
                       ELSE IF 100 * caps < 40 * w THEN 100 * caps ELSE 40 * w
            total == 40 * k * d + excl * d + capPart
            clamped == IF total > 100 * d THEN 100 * d
                       ELSE IF total < 0 THEN 0 ELSE total
        IN  /\ Len(URGENT_WORDS) = 7
            /\ ret.den > 0
            /\ ret.num * d = clamped * ret.den
            /\ 0 <= ret.num /\ ret.num <= 100 * ret.den
            /\ t = << >> => ret.num = 0
            /\ k >= 1 => ret.num >= 40 * ret.den
            /\ k >= 3 => ret.num = 100 * ret.den

C7_Witness ==
    /\ pc = "done"
    /\ arg.text = <<"T","h","i","s"," ","i","s"," ","u","r","g","e","n","t",","," ","p","l","e","a","s","e"," ","h","e","l","p"," ","m","e"," ","A","S","A","P","!","!","!">>
    /\ UrgentHits(arg.text) >= 3
    /\ ret.num = 100 * ret.den

----------------------------------------------------------------------------
(* Conversations as arguments                                              *)

\* role, text, score and label of a stored message; the label is the one
\* score_message derives from the score
MessageKinds ==
    { [role |-> "user",  text |-> <<"b","a","d">>, score |-> -90, label |-> "Negative"],
      [role |-> "user",  text |-> <<"s","l","o","w">>, score |-> -20, label |-> "Negative"],
      [role |-> "user",  text |-> <<"o","k">>, score |-> 0, label |-> "Neutral"],
      [role |-> "user",  text |-> <<"g","r","e","a","t">>, score |-> 50, label |-> "Positive"],
      [role |-> "agent", text |-> <<"s","o","r","r","y">>, score |-> -95, label |-> "Negative"],
      [role |-> "agent", text |-> <<"g","l","a","d">>, score |-> 50, label |-> "Positive"] }

\* the log holding messages of the given kinds, the id being the position
ConversationOf(kinds) ==
    [ i \in 1..Len(kinds) |->
        [id |-> i, role |-> kinds[i].role, text |-> kinds[i].text,
         score |-> kinds[i].score, label |-> kinds[i].label] ]

Conversations == { ConversationOf(ks) : ks \in SeqsUpTo(MessageKinds, MaxConv) }

UserMessages(conv) == SelectSeq(conv, LAMBDA m : m.role = "user")

----------------------------------------------------------------------------
(* top_negative_messages called on its own                               *)

InitTopNegative ==
    /\ pc = "call"
    /\ arg \in [conv : Conversations, top_k : (-1)..MaxTopK]
    /\ ret = "pending"
    /\ SessionIdle

CallTopNegativeMessages == Return(top_negative_messages(arg.conv, arg.top_k))

SpecTopNegative == InitTopNegative /\ [][CallTopNegativeMessages]_vars

\* C4: for every conversation and top_k >= 0, top_negative_messages returns
\* only user messages of the conversation, min(top_k, number of user
\* messages) of them, in non-decreasing score order, no omitted user message
\* scoring strictly lower than a returned one, equal scores in their
\* original order.
C4_TopNegative ==
    (pc = "done" /\ arg.top_k >= 0) =>
        LET users == UserMessages(arg.conv)
            n == Len(users)
        IN  /\ \A i \in DOMAIN ret :
                  ret[i].role = "user" /\ ret[i] \in Range(arg.conv)
            /\ \A i, j \in DOMAIN ret : i < j => ret[i] # ret[j]
            /\ Len(ret) = IF arg.top_k < n THEN arg.top_k ELSE n
            /\ \A i, j \in DOMAIN ret : i < j => ret[i].score <= ret[j].score
            /\ \A u \in Range(users) \ Range(ret) :
                  \A r \in Range(ret) : ~(u.score < r.score)
            /\ \A i, j \in DOMAIN ret :
                  (i < j /\ ret[i].score = ret[j].score) => ret[i].id < ret[j].id

C4_Witness ==
    /\ pc = "done"
    /\ arg.top_k = 2
    /\ Len(arg.conv) = 4
    /\ [ i \in 1..4 |-> arg.conv[i].role ] = << "user", "user", "user", "user" >>
    /\ [ i \in 1..4 |-> arg.conv[i].score ] = << 50, -90, -20, -90 >>
    /\ ret = << arg.conv[2], arg.conv[4] >>

----------------------------------------------------------------------------
(* generate_text_report called on its own                                *)

InitReport ==
    /\ pc = "call"
    /\ arg \in [conv : Conversations]
    /\ ret = "pending"
    /\ SessionIdle

CallGenerateTextReport == Return(generate_text_report(arg.conv))

SpecReport == InitReport /\ [][CallGenerateTextReport]_vars

\* the numbered lines of a report
ReportItems(lines) == SelectSeq(lines, LAMBDA l : l.line = "item")

HasPlaceholder(lines) ==
    \E n \in DOMAIN lines : lines[n].line = "No user messages to highlight."

NegativeUserMessages(conv) ==
    { m \in Range(conv) : m.role = "user" /\ m.label = "Negative" /\ m.score <= -5 }

\* C10: generate_text_report lists at most 3 messages, every listed message
\* is a negative (Negative-labelled, score <= -0.05) user message, most
\* negative first, and the placeholder line is produced instead exactly when
\* the conversation holds no negative user message.
C10_ReportListsOnlyNegatives ==
    pc = "done" =>
        LET items == ReportItems(ret)
        IN  /\ Len(items) <= 3
            /\ \A n \in DOMAIN items :
                  \E m \in NegativeUserMessages(arg.conv) :
                      m.text = items[n].text /\ 10 * m.score = items[n].score
            /\ \A i, j \in DOMAIN items : i < j => items[i].score <= items[j].score
            /\ HasPlaceholder(ret) <=> NegativeUserMessages(arg.conv) = {}
            /\ HasPlaceholder(ret) <=> items = << >>

----------------------------------------------------------------------------
(* The Streamlit session                                                   *)

\* round(x, 2) of a quotient in hundredths: the nearest hundredths; at an
\* exact half the binary value of the float decides, so both are possible
round2(x) ==
    LET q == x.num \div x.den
        r == x.num % x.den
    IN  IF 2 * r < x.den THEN { q }
        ELSE IF 2 * r > x.den THEN { q + 1 }
        ELSE { q, q + 1 }

\* mutant: the intent is detected from the text whatever the role
make_message_IntentForAll(role, text, score, label, uid, now, sia) ==
    IF role = "user"
    THEN { [id |-> uid, timestamp |-> now, role |-> role, text |-> text,
            score |-> score, label |-> label,
            intent |-> detect_intent(text),
            urgency |-> u,
            worst_sentence |-> worst_sentence(text, sia).sentence]
           : u \in round2(urgency_score(text)) }
    ELSE { [id |-> uid, timestamp |-> now, role |-> role, text |-> text,
            score |-> score, label |-> label,
            intent |-> detect_intent(text), urgency |-> 0,
            worst_sentence |-> << >>] }

\* make_message(role, text, score, label): the messages it can build, uid
\* and now being the uuid and the clock, sia the scorer's compound values
\* for the sentences of the text
make_message(role, text, score, label, uid, now, sia) ==
    IF role = "user"
    THEN { [id |-> uid, timestamp |-> now, role |-> role, text |-> text,
            score |-> score, label |-> label,
            intent |-> detect_intent(text),
            urgency |-> u,
            worst_sentence |-> worst_sentence(text, sia).sentence]
           : u \in round2(urgency_score(text)) }
    ELSE { [id |-> uid, timestamp |-> now, role |-> role, text |-> text,
            score |-> score, label |-> label,
            intent |-> "agent", urgency |-> 0, worst_sentence |-> << >>] }

\* mutant: the new message is put at the front of the list
append_Front(lst, x) == << x >> \o lst

\* list.append
append(lst, x) == Append(lst, x)

\* [m["score"] for m in conversation if m["role"] == "user"]
user_scores_of(conv) ==
    LET users == SelectSeq(conv, LAMBDA m : m.role = "user")
    IN  [ n \in 1..Len(users) |-> users[n].score ]

\* mutant: the labels of all messages, agent replies included
user_labels_of_AllRoles(conv) == [ n \in 1..Len(conv) |-> conv[n].label ]

\* [m["label"] for m in conversation if m["role"] == "user"]
user_labels_of(conv) ==
    LET users == SelectSeq(conv, LAMBDA m : m.role = "user")
    IN  [ n \in 1..Len(users) |-> users[n].label ]

\* what a run of the script shows for the log and the slider it finds
ScriptRun(conv, window) ==
    /\ alert' = detect_escalation(user_labels_of(conv), window)
    /\ critical' = top_negative_messages(conv, 3)
    /\ smoothed' = IF user_scores_of(conv) # << >>
                   THEN moving_average(user_scores_of(conv), 3).result
                   ELSE << >>

\* what the user types, with the scorer's compound value for it
SessionInputs ==
    { [text |-> <<"T","h","i","s"," ","i","s"," ","b","a","d","."," ","H","E","L","P"," ","m","e","!">>,
       compound |-> -60],
      [text |-> <<"o","k">>, compound |-> 30],
      [text |-> <<"I"," ","l","o","v","e"," ","m","y"," ","r","e","f","u","n","d">>,
       compound |-> 60] }

\* the scorer's compound values for sentences and for reply templates
SessionCompounds == { -30, 30 }

\* every reply template
ReplyTemplates ==
    Range(NEGATIVE_REPLIES) \cup Range(NEUTRAL_REPLIES) \cup Range(POSITIVE_REPLIES)

\* The text functions are tabulated over the texts a session can hold, so
\* that each is evaluated once and not at every step.

\* score_message(in.text, in.compound) for each user input
InputScores == [ in \in SessionInputs |-> score_message(in.text, in.compound) ] @@ << >>

\* score_message(reply, c) for each reply template and compound value
ReplyScores ==
    [ k \in ReplyTemplates \X SessionCompounds |-> score_message(k[1], k[2]) ] @@ << >>

\* the scorer's possible compound values for the sentences of a text
SentenceCompounds(text) == [1..Len(sentences_of(text)) -> SessionCompounds]

\* make_message("user", ...) for each user input, sentence scoring and id,
\* the clock ticking once per cycle
UserMessageTable ==
    [ k \in { << in, sia, uid >> :
                in \in SessionInputs,
                sia \in UNION { SentenceCompounds(i.text) : i \in SessionInputs },
                uid \in 1..(2 * (MaxCycles + 1)) } |->
        IF k[2] \in SentenceCompounds(k[1].text)
        THEN make_message("user", k[1].text, InputScores[k[1]].compound,
                          InputScores[k[1]].label, k[3], (k[3] - 1) \div 2, k[2])
        ELSE {} ] @@ << >>

InitSession ==
    /\ pc = "session"
    /\ arg = << >>
    /\ ret = << >>
    /\ conversation = << >>
    /\ show_welcome = TRUE
    /\ escalation_window = 3
    /\ alert = FALSE
    /\ critical = << >>
    /\ smoothed = << >>
    /\ download = NoDownload
    /\ created = 0

\* the chat input: one classify-and-append cycle, then st.rerun(); limit
\* caps the number of cycles of a session
ChatCycle(limit) ==
    \E in \in SessionInputs :
    \E sia \in SentenceCompounds(in.text) :
    \E replyCompound \in SessionCompounds :
        LET user_scores == InputScores[in]
            now == created \div 2
        IN  /\ pc = "session"
            /\ in.text # << >>
            /\ created + 2 <= 2 * limit
            /\ \E user_msg \in UserMessageTable[<< in, sia, created + 1 >>] :
               \E agent_text \in adaptive_reply(user_scores.label) :
                  LET agent_scores == ReplyScores[<< agent_text, replyCompound >>]
                  IN  \E agent_msg \in make_message("agent", agent_text,
                                                    agent_scores.compound,
                                                    agent_scores.label,
                                                    created + 2, now, << >>) :
                         conversation' = append(append(conversation, user_msg),
                                                agent_msg)
            /\ show_welcome' = FALSE
            /\ created' = created + 2
            /\ download' = NoDownload
            /\ ScriptRun(conversation', escalation_window)
            /\ UNCHANGED << pc, arg, ret, escalation_window >>

\* the chat input in a session of up to MaxCycles cycles
ChatInput == ChatCycle(MaxCycles)

\* the chat input in a session one cycle longer
ChatInputLong == ChatCycle(MaxCycles + 1)

\* the Reset Conversation button, then st.rerun()
ResetConversation ==
    /\ pc = "session"
    /\ conversation' = << >>
    /\ show_welcome' = TRUE
    /\ download' = NoDownload
    /\ ScriptRun(conversation', escalation_window)
    /\ UNCHANGED << pc, arg, ret, escalation_window, created >>

\* the Escalation Threshold slider is moved
MoveSlider ==
    \E w \in SliderMin..SliderMax :
        /\ pc = "session"
        /\ w # escalation_window
        /\ escalation_window' = w
        /\ download' = NoDownload
        /\ ScriptRun(conversation, w)
        /\ UNCHANGED << pc, arg, ret, conversation, show_welcome, created >>

\* the Export as CSV button (shown once there is a user message)
ExportCSV ==
    /\ pc = "session"
    /\ user_scores_of(conversation) # << >>
    /\ download' = [kind |-> "csv", rows |-> conversation]
    /\ ScriptRun(conversation, escalation_window)
    /\ UNCHANGED << pc, arg, ret, conversation, show_welcome,
                    escalation_window, created >>

\* the Generate Report button (shown once there is a user message)
GenerateReport ==
    /\ pc = "session"
    /\ user_scores_of(conversation) # << >>
    /\ download' = [kind |-> "report", lines |-> generate_text_report(conversation)]
    /\ ScriptRun(conversation, escalation_window)
    /\ UNCHANGED << pc, arg, ret, conversation, show_welcome,
                    escalation_window, created >>

Next ==
    \/ ChatInput
    \/ ResetConversation
    \/ MoveSlider
    \/ ExportCSV
    \/ GenerateReport

Spec == InitSession /\ [][Next]_vars

\* the same session, one cycle longer
NextLong ==
    \/ ChatInputLong
    \/ ResetConversation
    \/ MoveSlider
    \/ ExportCSV
    \/ GenerateReport

SpecLong == InitSession /\ [][NextLong]_vars

\* C8: the log changes only by a user-input cycle, which appends the user
\* message and then the agent reply and leaves every stored message in
\* place, or by a reset, which empties it; no other step changes it: not a
\* move of the slider, not an export, not a report.
C8_LogAppendOrReset ==
    [][ /\ \/ conversation' = conversation
           \/ conversation' = << >> /\ show_welcome'
           \/ /\ Len(conversation') = Len(conversation) + 2
              /\ SubSeq(conversation', 1, Len(conversation)) = conversation
              /\ conversation'[Len(conversation) + 1].role = "user"
              /\ conversation'[Len(conversation) + 2].role = "agent"
        /\ (download' # NoDownload \/ escalation_window' # escalation_window)
              => conversation' = conversation ]_vars

\* a cycle, a reset and a second cycle have happened
C8_Witness ==
    /\ pc = "session"
    /\ created = 4
    /\ Len(conversation) = 2
    /\ conversation[1].role = "user" /\ conversation[1].id = 3
    /\ conversation[2].role = "agent" /\ conversation[2].id = 4

\* C9: the escalation alert is raised if and only if the labels of the
\* user messages, in log order with the agent messages removed, hold at
\* least `window` consecutive Negative labels; agent replies neither extend
\* nor break the run.
C9_AlertIffUserRun ==
    pc = "session" =>
        LET users == SelectSeq(conversation, LAMBDA m : m.role = "user")
            labels == [ n \in 1..Len(users) |-> users[n].label ]
        IN  alert <=> HasNegativeRun(labels, escalation_window)

\* the alert is up over two Negative user messages with a reply that is not
\* Negative between them
C9_Witness ==
    /\ pc = "session"
    /\ alert
    /\ escalation_window = 2
    /\ Len(conversation) = 4
    /\ conversation[1].label = "Negative"
    /\ conversation[2].role = "agent" /\ conversation[2].label # "Negative"
    /\ conversation[3].label = "Negative"

----------------------------------------------------------------------------
(* The four aggregators, each called on its own with any argument          *)

InitAggregators ==
    /\ pc = "call"
    /\ arg \in [fn : { "conversation_overall" },
                scores : SeqsUpTo(ScoreVals, MaxScores)]
          \cup [fn : { "detect_escalation" },
                labels : SeqsUpTo(Labels, MaxLabels), window : WindowArgs]
          \cup [fn : { "moving_average" },
                values : SeqsUpTo(TrendVals, MaxValues), window : WindowArgs]
          \cup [fn : { "top_negative_messages" },
                conv : Conversations, top_k : (-1)..MaxTopK]
    /\ ret = "pending"
    /\ SessionIdle

AggConversationOverall ==
    /\ arg.fn = "conversation_overall"
    /\ Return(conversation_overall(arg.scores))

AggDetectEscalation ==
    /\ arg.fn = "detect_escalation"
    /\ Return(detect_escalation(arg.labels, arg.window))

AggMovingAverage ==
    /\ arg.fn = "moving_average"
    /\ Return(moving_average(arg.values, arg.window))

AggTopNegativeMessages ==
    /\ arg.fn = "top_negative_messages"
    /\ Return(top_negative_messages(arg.conv, arg.top_k))

NextAggregators ==
    \/ AggConversationOverall
    \/ AggDetectEscalation
    \/ AggMovingAverage
    \/ AggTopNegativeMessages

SpecAggregators == InitAggregators /\ [][NextAggregators]_vars

\* C11: every aggregator is total: for every list, the empty one included,
\* and every integer window / top_k, conversation_overall, detect_escalation,
\* moving_average and top_negative_messages return a value and never raise;
\* on the empty list they return (0.0, Neutral), false, [] and [].
C11_AggregatorsTotal ==
    pc = "done" =>
        /\ arg.fn = "conversation_overall" =>
              /\ ret[2] \in Labels
              /\ arg.scores = << >> => ret = << Rat(0, 1), "Neutral" >>
        /\ arg.fn = "detect_escalation" =>
              /\ ret \in BOOLEAN
              /\ arg.labels = << >> => ret = FALSE
        /\ arg.fn = "moving_average" =>
              /\ ret.exc = "none"
              /\ arg.values = << >> => ret.result = << >>
        /\ arg.fn = "top_negative_messages" =>
              /\ \A i \in DOMAIN ret : ret[i] \in Range(arg.conv)
              /\ arg.conv = << >> => ret = << >>

----------------------------------------------------------------------------
(* The shape of the stored messages                                        *)

\* the intent tags a user message can carry
UserIntents == { "billing", "refund", "delivery", "technical", "account", "other" }

\* C12: every message stored in the conversation log has intent "agent"
\* exactly when its role is "agent"; an agent message has urgency 0.0 and an
\* empty worst_sentence; a user message has one of the six intent tags and
\* an urgency between 0.0 and 1.0.
C12_StoredMessageShape ==
    \A n \in DOMAIN conversation :
        LET m == conversation[n]
        IN  /\ m.intent = "agent" <=> m.role = "agent"
            /\ m.role = "agent" => m.urgency = 0 /\ m.worst_sentence = << >>
            /\ m.role = "user" =>
                  /\ m.intent \in UserIntents
                  /\ 0 <= m.urgency /\ m.urgency <= 100

\* a log holding a user message with a category and a non-zero urgency, a
\* user message without category, and agent replies
C12_Witness ==
    /\ \E n \in DOMAIN conversation :
          /\ conversation[n].role = "user"
          /\ conversation[n].intent = "refund"
          /\ conversation[n].urgency = 25
    /\ \E n \in DOMAIN conversation :
          /\ conversation[n].role = "user"
          /\ conversation[n].intent = "other"
          /\ conversation[n].urgency = 65
          /\ conversation[n].worst_sentence # << >>
    /\ \E n \in DOMAIN conversation :
          /\ conversation[n].role = "agent"
          /\ conversation[n].intent = "agent"
          /\ conversation[n].text # << >>

----------------------------------------------------------------------------
(* The escalation alert over the life of a conversation                    *)

\* C13: escalation is latched over the whole log: while the window is left
\* as it is, an alert that is raised stays raised after every further step
\* that is not a reset, whatever the labels of the later messages; a reset
\* empties the log, and on the empty log the alert is not raised.
C13_EscalationLatched ==
    [][ /\ (alert /\ escalation_window' = escalation_window
                  /\ conversation' # << >>) => alert'
        /\ conversation' = << >> => ~alert' ]_vars

\* the alert is still raised after a Positive user message that followed
\* the Negative run
C13_Witness ==
    LET labels == user_labels_of(conversation)
    IN  /\ alert
        /\ Len(labels) = escalation_window + 1
        /\ \A n \in 1..escalation_window : labels[n] = "Negative"
        /\ labels[Len(labels)] = "Positive"

=============================================================================
